---------------------------- MODULE Spec2Model ----------------------------
(***************************************************************************)
(* Model of proxy_server.py: a socketserver.TCPServer that serves one      *)
(* connection at a time with CORSProxyHandler.  Requests whose path starts *)
(* with /api/ are forwarded to the TempMail API with urllib; everything    *)
(* else goes to SimpleHTTPRequestHandler.                                  *)
(*                                                                         *)
(* Strings that the code slices or concatenates (the request path, the     *)
(* upstream URL, request bodies) are sequences of one-character strings.   *)
(* Response bodies are sequences of string chunks.                         *)
(***************************************************************************)
EXTENDS Integers, Sequences, FiniteSets, TLC

VARIABLES
    running,      \* httpd.serve_forever() is looping
    backlog,      \* connections waiting on the listening socket
    pc,           \* position of the single serving thread
    cur,          \* the request being handled (self.command, self.path, ...)
    upReq,        \* the urllib.request.Request handed to urlopen
    upCalls,      \* number of urlopen calls made for cur
    upResult,     \* what the upstream exchange produced for cur
    resp,         \* response blocks started on the client socket for cur
    outcome,      \* how the handler ended for cur
    delegatePath  \* path the static-file delegate was invoked with

vars == <<running, backlog, pc, cur, upReq, upCalls, upResult, resp, outcome, delegatePath>>

----------------------------------------------------------------------------
(* Bounds *)

MaxBacklog == 2
MaxContentLength == 2
MaxBodyLen == 2

----------------------------------------------------------------------------
(* Inputs *)

Methods == {"GET", "POST", "PUT", "DELETE", "OPTIONS"}

Paths ==
    { <<"/","a","p","i","/","a">>,
      <<"/","a","p","i","/","a","?","q">>,
      <<"/","a","p","i","/">>,
      <<"/","a","p","i">>,
      <<"/","x">> }

StaticFiles == { <<"/","x">> }

Bytes == {"x", "y"}

RECURSIVE SeqsUpTo(_, _)
SeqsUpTo(S, n) ==
    IF n = 0 THEN { <<>> }
    ELSE LET shorter == SeqsUpTo(S, n - 1)
         IN  shorter \cup { Append(s, b) : s \in shorter, b \in S }

Bodies == SeqsUpTo(Bytes, MaxBodyLen)

ContentLengths ==
    { [kind |-> "absent", n |-> 0], [kind |-> "malformed", n |-> 0] }
    \cup { [kind |-> "int", n |-> k] : k \in 0..MaxContentLength }

AuthValues == {"", "Bearer xyz"}

Requests ==
    [command : Methods, path : Paths, content_length : ContentLengths,
     body : Bodies, auth : AuthValues]

NoRequest ==
    [command |-> "", path |-> <<>>, content_length |-> [kind |-> "absent", n |-> 0],
     body |-> <<>>, auth |-> ""]

UpstreamBodies == {"{\"id\":1}", "{\"message\":\"not found\"}"}

UpstreamOutcomes ==
    { [kind |-> "ok", status |-> s, body |-> b] : s \in {200, 201}, b \in UpstreamBodies }
    \cup { [kind |-> "http_error", status |-> s, body |-> b] : s \in {404, 500}, b \in UpstreamBodies }
    \cup { [kind |-> "http_error_unreadable", status |-> 404, body |-> ""] }
    \cup { [kind |-> "url_error", status |-> 0, body |-> "<urlopen error [Errno 111] Connection refused>"] }
    \cup { [kind |-> "recv_failure", status |-> 0, body |-> "timed out"] }
    \cup { [kind |-> "body_read_failure", status |-> 200, body |-> "timed out"] }

NoResult == [kind |-> "none", status |-> 0, body |-> ""]

----------------------------------------------------------------------------
(* Pure helpers *)

StartsWith(s, prefix) ==
    /\ Len(s) >= Len(prefix)
    /\ SubSeq(s, 1, Len(prefix)) = prefix

ApiPrefix == <<"/","a","p","i","/">>

IsApiPath(path) == StartsWith(path, ApiPrefix)

UpstreamBase ==
    <<"h","t","t","p","s",":","/","/","a","p","i",".","t","e","m","p","m","a","i","l",
      ".","c","o","/","v","1">>

api_path_strip5(path) == SubSeq(path, 6, Len(path))

api_path(path) == SubSeq(path, 5, Len(path))

api_url(path) == UpstreamBase \o api_path(path)

ParseContentLength(h) ==
    CASE h.kind = "absent"    -> [ok |-> TRUE,  value |-> 0]
      [] h.kind = "malformed" -> [ok |-> FALSE, value |-> 0]
      [] OTHER                -> [ok |-> TRUE,  value |-> h.n]

Min(a, b) == IF a < b THEN a ELSE b

rfile_read(body, n) == SubSeq(body, 1, Min(n, Len(body)))

None == [present |-> FALSE, bytes |-> <<>>]

Truthy(data) == data.present /\ data.bytes # <<>>

UpstreamHeaders_NotNone(auth, post_data) ==
    (IF auth # "" THEN { <<"Authorization", auth>> } ELSE {})
    \cup (IF post_data.present THEN { <<"Content-Type", "application/json">> } ELSE {})
    \cup { <<"Accept", "application/json">>, <<"User-Agent", "TempMail-Proxy/1.0">> }

UpstreamHeaders(auth, post_data) ==
    (IF auth # "" THEN { <<"Authorization", auth>> } ELSE {})
    \cup (IF Truthy(post_data) THEN { <<"Content-Type", "application/json">> } ELSE {})
    \cup { <<"Accept", "application/json">>, <<"User-Agent", "TempMail-Proxy/1.0">> }

NoUpReq == [url |-> <<>>, method |-> "", data |-> None, headers |-> {}]

BuildRequest(req, post_data) ==
    [url |-> api_url(req.path), method |-> req.command, data |-> post_data,
     headers |-> UpstreamHeaders(req.auth, post_data)]

ProxyHeaders == { <<"Access-Control-Allow-Origin", "*">>, <<"Content-Type", "application/json">> }

PreflightHeaders ==
    { <<"Access-Control-Allow-Origin", "*">>,
      <<"Access-Control-Allow-Methods", "GET, POST, PUT, DELETE, OPTIONS">>,
      <<"Access-Control-Allow-Headers", "Content-Type, Authorization, Accept">> }

Block(status, headers, body, written) ==
    [status |-> status, headers |-> headers, body |-> body, written |-> written]

ApiResponse_Always200(status, body, written) == Block(200, ProxyHeaders, body, written)

ApiResponse(status, body, written) == Block(status, ProxyHeaders, body, written)

JsonMessage(prefix, desc) == << "{\"message\": \"", prefix, desc, "\"}" >>

NetworkErrorBody(desc) == JsonMessage("Network error: ", desc)

ProxyErrorBody(desc) == JsonMessage("Proxy error: ", desc)

StaticResponse(path) ==
    IF path \in StaticFiles
    THEN Block(200, { <<"Server", "SimpleHTTP">> }, <<"file">> \o path, "all")
    ELSE Block(404, { <<"Server", "SimpleHTTP">> }, <<"File not found">>, "all")

UnsupportedMethodResponse(command) ==
    Block(501, { <<"Content-Type", "text/html;charset=utf-8">> },
          <<"Unsupported method (", command, ")">>, "all")

----------------------------------------------------------------------------
(* State *)

Init ==
    /\ running = TRUE
    /\ backlog = 0
    /\ pc = "idle"
    /\ cur = NoRequest
    /\ upReq = NoUpReq
    /\ upCalls = 0
    /\ upResult = NoResult
    /\ resp = <<>>
    /\ outcome = "none"
    /\ delegatePath = <<>>

\* A client connects to port 5000; the kernel queues the connection.
client_connect ==
    /\ running
    /\ backlog < MaxBacklog
    /\ backlog' = backlog + 1
    /\ UNCHANGED <<running, pc, cur, upReq, upCalls, upResult, resp, outcome, delegatePath>>

\* serve_forever accepts the next connection once the serving thread is free
\* and the request line and headers are parsed.
get_request ==
    /\ running
    /\ pc = "idle"
    /\ backlog > 0
    /\ \E req \in Requests : cur' = req
    /\ backlog' = backlog - 1
    /\ pc' = "accepted"
    /\ UNCHANGED <<running, upReq, upCalls, upResult, resp, outcome, delegatePath>>

\* The handler ended (returned or raised) with the given response blocks.
Finish(blocks, oc) ==
    /\ resp' = blocks
    /\ outcome' = oc
    /\ pc' = "finished"

\* The outer except of handle_api_request: a second send_response(500) after
\* whatever blocks were already started; its own write may raise as well.
ProxyError(started, desc, writeRaises) ==
    IF writeRaises
    THEN Finish(Append(started, ApiResponse(500, ProxyErrorBody(desc), "none")), "raised")
    ELSE Finish(Append(started, ApiResponse(500, ProxyErrorBody(desc), "all")), "proxy_error")

\* send_response / send_header / end_headers / wfile.write of one branch of
\* the inner try; wf names the client write that raises, if any.
Relay(status, body, oc, wf, writeRaises) ==
    CASE wf = "none" -> Finish(<<ApiResponse(status, body, "all")>>, oc)
      [] wf = "head" -> ProxyError(<<ApiResponse(status, body, "none")>>, "Broken pipe", writeRaises)
      [] OTHER       -> ProxyError(<<ApiResponse(status, body, "head")>>, "Broken pipe", writeRaises)

\* Lines 43-62: build the upstream request and enter urlopen.
IssueUrlopen(post_data) ==
    /\ upReq' = BuildRequest(cur, post_data)
    /\ upCalls' = upCalls + 1
    /\ pc' = "urlopen"
    /\ UNCHANGED <<resp, outcome>>

\* handle_api_request up to the blocking urlopen call.
handle_api_request ==
    LET cl == ParseContentLength(cur.content_length) IN
    /\ IF ~cl.ok
       THEN /\ \E w \in BOOLEAN : ProxyError(<<>>, "invalid literal for int()", w)
            /\ UNCHANGED <<upReq, upCalls>>
       ELSE IF cl.value > 0
       THEN \E rd \in {"ok", "raise"} :
              IF rd = "raise"
              THEN /\ \E w \in BOOLEAN : ProxyError(<<>>, "Connection reset by peer", w)
                   /\ UNCHANGED <<upReq, upCalls>>
              ELSE IssueUrlopen([present |-> TRUE, bytes |-> rfile_read(cur.body, cl.value)])
       ELSE IssueUrlopen(None)
    /\ UNCHANGED <<running, backlog, cur, upResult, delegatePath>>

do_OPTIONS ==
    /\ running
    /\ pc = "accepted"
    /\ cur.command = "OPTIONS"
    /\ \E w \in BOOLEAN :
         IF w THEN Finish(<<Block(200, PreflightHeaders, <<>>, "none")>>, "raised")
              ELSE Finish(<<Block(200, PreflightHeaders, <<>>, "all")>>, "preflight")
    /\ UNCHANGED <<running, backlog, cur, upReq, upCalls, upResult, delegatePath>>

do_GET ==
    /\ running
    /\ pc = "accepted"
    /\ cur.command = "GET"
    /\ IF IsApiPath(cur.path)
       THEN handle_api_request
       ELSE /\ delegatePath' = cur.path
            /\ Finish(<<StaticResponse(cur.path)>>, "static")
            /\ UNCHANGED <<running, backlog, cur, upReq, upCalls, upResult>>

\* SimpleHTTPRequestHandler has no do_POST: super().do_POST() raises
\* AttributeError before anything is written.
do_POST ==
    /\ running
    /\ pc = "accepted"
    /\ cur.command = "POST"
    /\ IF IsApiPath(cur.path)
       THEN handle_api_request
       ELSE /\ Finish(<<>>, "raised")
            /\ UNCHANGED <<running, backlog, cur, upReq, upCalls, upResult, delegatePath>>

\* The class defines no do_PUT / do_DELETE: the base handler answers 501.
send_error_501 ==
    /\ running
    /\ pc = "accepted"
    /\ cur.command \notin {"OPTIONS", "GET", "POST"}
    /\ Finish(<<UnsupportedMethodResponse(cur.command)>>, "unsupported")
    /\ UNCHANGED <<running, backlog, cur, upReq, upCalls, upResult, delegatePath>>

\* Variant of urlopen_returns that re-issues the call after a URLError.
urlopen_returns_retry ==
    /\ running
    /\ pc = "urlopen"
    /\ \E up \in UpstreamOutcomes, wf \in {"none", "head", "body"}, w \in BOOLEAN :
         IF up.kind = "url_error" /\ upCalls < 3
         THEN /\ upCalls' = upCalls + 1
              /\ UNCHANGED <<pc, upResult, resp, outcome>>
         ELSE /\ upResult' = up
              /\ UNCHANGED upCalls
              /\ CASE up.kind = "ok" ->
                        Relay(up.status, <<up.body>>, "relayed", wf, w)
                   [] up.kind = "http_error" ->
                        Relay(up.status, <<up.body>>, "api_error", wf, w)
                   [] up.kind = "url_error" ->
                        Relay(500, NetworkErrorBody(up.body), "network_error", wf, w)
                   [] OTHER ->
                        ProxyError(<<>>, up.body, w)
    /\ UNCHANGED <<running, backlog, cur, upReq, delegatePath>>

\* urlopen comes back (response, HTTPError, URLError or another exception)
\* and the rest of handle_api_request runs.
urlopen_returns ==
    /\ running
    /\ pc = "urlopen"
    /\ \E up \in UpstreamOutcomes, wf \in {"none", "head", "body"}, w \in BOOLEAN :
         /\ upResult' = up
         /\ CASE up.kind = "ok" ->
                   Relay(up.status, <<up.body>>, "relayed", wf, w)
              [] up.kind = "http_error" ->
                   Relay(up.status, <<up.body>>, "api_error", wf, w)
              [] up.kind = "url_error" ->
                   Relay(500, NetworkErrorBody(up.body), "network_error", wf, w)
              [] OTHER ->
                   ProxyError(<<>>, up.body, w)
    /\ UNCHANGED <<running, backlog, cur, upReq, upCalls, delegatePath>>

\* Variant of shutdown_request in which an exception that escaped the handler
\* also escapes serve_forever.
shutdown_request_crash ==
    /\ running
    /\ pc = "finished"
    /\ IF outcome = "raised"
       THEN /\ running' = FALSE
            /\ pc' = "crashed"
            /\ UNCHANGED <<backlog, cur, upReq, upCalls, upResult, resp, outcome, delegatePath>>
       ELSE /\ pc' = "idle"
            /\ cur' = NoRequest
            /\ upReq' = NoUpReq
            /\ upCalls' = 0
            /\ upResult' = NoResult
            /\ resp' = <<>>
            /\ outcome' = "none"
            /\ delegatePath' = <<>>
            /\ UNCHANGED <<running, backlog>>

\* Back in the serve loop: the connection is shut down whether the handler
\* returned or raised (handle_error), and the loop goes on.
shutdown_request ==
    /\ running
    /\ pc = "finished"
    /\ pc' = "idle"
    /\ cur' = NoRequest
    /\ upReq' = NoUpReq
    /\ upCalls' = 0
    /\ upResult' = NoResult
    /\ resp' = <<>>
    /\ outcome' = "none"
    /\ delegatePath' = <<>>
    /\ UNCHANGED <<running, backlog>>

\* Ctrl-C: KeyboardInterrupt ends serve_forever wherever the thread is.
keyboard_interrupt ==
    /\ running
    /\ running' = FALSE
    /\ pc' = "stopped"
    /\ UNCHANGED <<backlog, cur, upReq, upCalls, upResult, resp, outcome, delegatePath>>

Next ==
    \/ client_connect
    \/ get_request
    \/ do_OPTIONS
    \/ do_GET
    \/ do_POST
    \/ send_error_501
    \/ urlopen_returns
    \/ shutdown_request
    \/ keyboard_interrupt

Spec == Init /\ [][Next]_vars

\* The serving thread always gets to run, and urlopen returns within its
\* 30-second timeout; clients and Ctrl-C are under no obligation.
LiveSpec ==
    /\ Spec
    /\ WF_vars(get_request)
    /\ WF_vars(do_OPTIONS)
    /\ WF_vars(do_GET)
    /\ WF_vars(do_POST)
    /\ WF_vars(send_error_501)
    /\ WF_vars(urlopen_returns)
    /\ WF_vars(shutdown_request)

----------------------------------------------------------------------------
(* Properties *)

TypeOK ==
    /\ running \in BOOLEAN
    /\ backlog \in 0..MaxBacklog
    /\ pc \in {"idle", "accepted", "urlopen", "finished", "stopped"}
    /\ cur \in Requests \cup {NoRequest}
    /\ upCalls \in Nat
    /\ upResult \in UpstreamOutcomes \cup {NoResult}
    /\ outcome \in {"none", "preflight", "static", "unsupported", "relayed",
                    "api_error", "network_error", "proxy_error", "raised"}

Handled == pc = "finished"

Forwarded == pc \in {"urlopen", "finished"} /\ upCalls > 0

ClientWriteFailed == \E i \in 1..Len(resp) : resp[i].written # "all"

UpstreamAnswered == upResult.kind \in {"ok", "http_error"}

\* C1: every handled request has exactly one response block started on the
\* client socket: never none, never a second one.
C1_ExactlyOneResponse ==
    Handled => Len(resp) = 1

\* C2: when the upstream returns status s and body b, the response started
\* for the client has status s, the CORS and JSON content-type headers and
\* body b, and unless a write to the client socket raises it is the whole
\* and only response.
C2_RelayVerbatim ==
    (Handled /\ UpstreamAnswered) =>
        /\ Len(resp) >= 1
        /\ resp[1].status = upResult.status
        /\ ProxyHeaders \subseteq resp[1].headers
        /\ resp[1].body = <<upResult.body>>
        /\ (~ClientWriteFailed =>
              /\ Len(resp) = 1
              /\ resp[1].written = "all")

C2_Witness ==
    /\ Handled
    /\ upResult.kind = "http_error"
    /\ upResult.status = 404
    /\ resp = <<Block(404, ProxyHeaders, <<"{\"message\":\"not found\"}">>, "all")>>

\* C3: a transport failure of the upstream exchange with no HTTP status
\* obtained (while connecting, or while waiting for the response) is
\* answered 500 with a message starting "Network error: ".
C3_TransportFailureIsNetworkError ==
    (Handled /\ upResult.kind \in {"url_error", "recv_failure"}) =>
        /\ Len(resp) >= 1
        /\ resp[1].status = 500
        /\ resp[1].body[2] = "Network error: "

\* C4: a GET or POST whose path does not start with /api/ never contacts
\* the upstream and is answered by the static-file delegate for that path.
C4_NonApiUsesStaticDelegate ==
    (Handled /\ cur.command \in {"GET", "POST"} /\ ~IsApiPath(cur.path)) =>
        /\ upCalls = 0
        /\ delegatePath = cur.path
        /\ resp = <<StaticResponse(cur.path)>>

BodyReadRaised ==
    /\ upCalls = 0
    /\ Len(resp) >= 1
    /\ resp[1].body = ProxyErrorBody("Connection reset by peer")

\* C5: a GET, POST, PUT or DELETE on an /api/ path (with a well-formed
\* Content-Length and a readable body) is forwarded upstream with the same
\* method.
C5_ForwardedWithSameMethod ==
    (/\ Handled
     /\ cur.command \in {"GET", "POST", "PUT", "DELETE"}
     /\ IsApiPath(cur.path)
     /\ ParseContentLength(cur.content_length).ok
     /\ ~BodyReadRaised) =>
        /\ upCalls = 1
        /\ upReq.method = cur.command

\* C6: while one request is blocked in its upstream call, a connection that
\* is waiting can be accepted.
C6_AcceptWhileUpstreamBlocked ==
    (running /\ pc = "urlopen" /\ backlog > 0) => ENABLED get_request

\* C7: at most one upstream call is made per request, and a request that
\* reached the forwarding step has made exactly one.
C7_AtMostOneUpstreamCall ==
    /\ upCalls <= 1
    /\ (pc = "urlopen" => upCalls = 1)
    /\ (upResult # NoResult => upCalls = 1)
    /\ (upReq # NoUpReq => upCalls = 1)

C7_Witness ==
    /\ Handled
    /\ upResult.kind = "url_error"
    /\ outcome = "network_error"
    /\ upCalls = 1

\* C8: whatever the outcome of a request, the serve loop keeps running: only
\* Ctrl-C stops it, every accepted request is handled to the end, a handler
\* that returned has answered, and a connection waiting when a request ends
\* is accepted next (unless Ctrl-C comes first).
C8_ServerKeepsServing ==
    /\ [][(running /\ ~running') => keyboard_interrupt]_vars
    /\ [](Handled => running)
    /\ []((Handled /\ outcome # "raised") => resp # <<>>)
    /\ ((pc = "accepted") ~> (Handled \/ ~running))
    /\ ((Handled /\ backlog > 0) ~> (pc = "accepted" \/ ~running))

C8_Witness ==
    /\ running
    /\ Handled
    /\ outcome = "raised"
    /\ backlog > 0

\* C9: the upstream URL is the fixed base followed by the path from its
\* fifth character on, so the part after the base starts with "/" and keeps
\* everything else of the path, the query string included.
C9_UpstreamUrl ==
    Forwarded =>
        /\ IsApiPath(cur.path)
        /\ Len(upReq.url) = Len(UpstreamBase) + Len(cur.path) - 4
        /\ SubSeq(upReq.url, 1, Len(UpstreamBase)) = UpstreamBase
        /\ upReq.url[Len(UpstreamBase) + 1] = "/"
        /\ \A i \in 5..Len(cur.path) :
              upReq.url[Len(UpstreamBase) + i - 4] = cur.path[i]

C9_Witness ==
    /\ pc = "urlopen"
    /\ cur.path = <<"/","a","p","i","/","a","?","q">>
    /\ upReq.url = UpstreamBase \o <<"/","a","?","q">>

BytesRead ==
    LET cl == ParseContentLength(cur.content_length)
    IN  IF cl.value > 0
        THEN { s \in Bodies :
                 /\ Len(s) <= cl.value
                 /\ Len(s) <= Len(cur.body)
                 /\ (Len(s) = cl.value \/ Len(s) = Len(cur.body))
                 /\ \A i \in 1..Len(s) : s[i] = cur.body[i] }
        ELSE { <<>> }

\* C10: the upstream request carries Content-Type: application/json exactly
\* when the body read from the client is non-empty, and the body sent
\* upstream is exactly the bytes read.
C10_ContentTypeIffBody ==
    Forwarded =>
        /\ (<<"Content-Type", "application/json">> \in upReq.headers)
              <=> (upReq.data.bytes # <<>>)
        /\ upReq.data.bytes \in BytesRead
        /\ upReq.data.present <=> (ParseContentLength(cur.content_length).value > 0)

C10_Witness ==
    /\ pc = "urlopen"
    /\ cur.content_length = [kind |-> "int", n |-> 2]
    /\ cur.body = <<>>
    /\ upReq.data = [present |-> TRUE, bytes |-> <<>>]
    /\ <<"Content-Type", "application/json">> \notin upReq.headers

=============================================================================
